---- MODULE Spec2Model ----
(***************************************************************************)
(* Model of brutus' HTTP brute-force pipeline (src/src/main.rs):            *)
(*   - the per-entry materialization of the raw request (lines 150-182),   *)
(*   - the producer loop feeding the submission channel (lines 150-187),   *)
(*   - the lanes spawned by rate_limiting_requests (lines 203-244),        *)
(*   - the collector task classifying outcomes (lines 115-148).            *)
(* Byte strings are sequences of one-character strings.  Time is counted   *)
(* in ticks, TicksPerSec ticks to the second; a tick is a whole number of  *)
(* milliseconds, so Duration::as_millis (line 220) loses nothing.          *)
(***************************************************************************)
EXTENDS Integers, Sequences, FiniteSets, TLC

VARIABLES
    raw_request,   \* bytes of the raw request file (line 110)
    wordlist,      \* the trimmed lines of the wordlist (lines 103-106)
    rate,          \* reqs_per_sec (line 94)
    status,        \* Option<u16> (line 89)
    body,          \* Option<String> (line 90)
    not_body,      \* Option<String> (line 91)
    main_pc,       \* position of http_brute_force after line 148
    next_word,     \* index of the entry the producer loop is at (line 150)
    cand,          \* the (request, word) pair built for the pending send
    request_q,     \* contents of the bounded(1) request channel (line 203);
                   \* a message carries, besides the request and the word,
                   \* the index of its wordlist entry (history)
    responses_q,   \* contents of the bounded(1) response channel (line 204);
                   \* a message carries, besides the result and the word,
                   \* the index of its wordlist entry (history)
    lane,          \* the spawned lane tasks (lines 214-243)
    coll_pc,       \* position of the collector task (lines 117-148)
    coll_count,    \* iterations of `for _ in 0..req_count` completed
    verdicts,      \* the lines printed by the collector, in order
    consumed,      \* history: outcomes taken off the response channel
    clock          \* observer: a stopwatch started with the run, or ClockOff

vars == << raw_request, wordlist, rate, status, body, not_body, main_pc,
           next_word, cand, request_q, responses_q, lane, coll_pc,
           coll_count, verdicts, consumed, clock >>

----------------------------------------------------------------------------
(* Bounds of the model *)

MaxWords == 3

MaxRate == 2

TicksPerSec == 1

----------------------------------------------------------------------------
(* Byte strings *)

\* Option<T>: None is the empty sequence, Some(v) the one-element one
None == << >>

Some(v) == << v >>

Min(S) == CHOOSE x \in S : \A y \in S : x <= y

Whitespace == {" ", "\t", "\r", "\n"}

\* std::str::trim_end (lines 105, 156): drop trailing whitespace
RECURSIVE trim_end(_)
trim_end(s) ==
    IF s = << >> THEN << >>
    ELSE IF s[Len(s)] \in Whitespace THEN trim_end(SubSeq(s, 1, Len(s) - 1))
    ELSE s

StartsWith(s, p) == Len(s) >= Len(p) /\ SubSeq(s, 1, Len(p)) = p

Drop(s, n) == SubSeq(s, n + 1, Len(s))

\* str::contains (lines 133, 140)
contains(s, p) == \E i \in 0..(Len(s) - Len(p)) : SubSeq(s, i + 1, i + Len(p)) = p

\* the placeholder of line 157
FUZZ == << "F", "U", "Z", "Z" >>

\* str::replace (line 157): left-to-right, non-overlapping matches of the
\* pattern in the original text; the inserted text is not scanned again
RECURSIVE replace(_, _, _)
replace(s, pat, w) ==
    IF s = << >> THEN << >>
    ELSE IF StartsWith(s, pat) THEN w \o replace(Drop(s, Len(pat)), pat, w)
    ELSE << Head(s) >> \o replace(Tail(s), pat, w)

\* a byte that is not valid UTF-8 on its own, and the three bytes of U+FFFD
\* that from_utf8_lossy (line 155) puts in its place
BadByte == "\\xFF"

ReplacementChar == << "\\xEF", "\\xBF", "\\xBD" >>

NonAscii == {BadByte, "\\xEF", "\\xBF", "\\xBD"}

RECURSIVE from_utf8_lossy(_)
from_utf8_lossy(bytes) ==
    IF bytes = << >> THEN << >>
    ELSE (IF Head(bytes) = BadByte THEN ReplacementChar ELSE << Head(bytes) >>)
             \o from_utf8_lossy(Tail(bytes))

----------------------------------------------------------------------------
(* httparse::Request::parse, as called on line 160 *)

CtlChars == {"\t", "\r", "\n"}

Separators == {"(", ")", ",", "/", ":", ";", "<", "=", ">", "?", "@", "[",
               "\\", "]", "{", "}", "\""}

\* the bytes that end a token, a URI, a header value
NotTokenChars == CtlChars \cup {" "} \cup Separators \cup NonAscii

NotUriChars == CtlChars \cup {" "}

NotValueChars == {"\r", "\n"}

HttpVersions == { << "H", "T", "T", "P", "/", "1", ".", "1" >>,
                  << "H", "T", "T", "P", "/", "1", ".", "0" >> }

VersionLen == Len(<< "H", "T", "T", "P", "/", "1", ".", "1" >>)

MaxHeaders == 64

\* first index j >= i whose byte is in Stop, or Len(s) + 1
FirstIn(s, i, Stop) ==
    LET at == {j \in i..Len(s) : s[j] \in Stop}
    IN  IF at = {} THEN Len(s) + 1 ELSE Min(at)

\* first index j >= i whose byte is not in Skip, or Len(s) + 1
FirstNotIn(s, i, Skip) ==
    LET at == {j \in i..Len(s) : s[j] \notin Skip}
    IN  IF at = {} THEN Len(s) + 1 ELSE Min(at)

Partial == [st |-> "Partial"]

ParseError(e) == [st |-> "Err", err |-> e]

\* a line end at i: the index after it, 0 for "not a line end", -1 for "need more"
NewLine(s, i) ==
    IF i > Len(s) THEN -1
    ELSE IF s[i] = "\n" THEN i + 1
    ELSE IF s[i] = "\r" THEN
        IF i + 1 > Len(s) THEN -1
        ELSE IF s[i + 1] = "\n" THEN i + 2 ELSE 0
    ELSE 0

\* the header block from index i on: headers so far in hs
RECURSIVE parse_headers(_, _, _)
parse_headers(s, i, hs) ==
    IF i > Len(s) THEN Partial
    ELSE IF NewLine(s, i) = -1 THEN Partial
    ELSE IF NewLine(s, i) > 0 THEN [st |-> "Complete", len |-> NewLine(s, i) - 1, headers |-> hs]
    ELSE IF s[i] = "\r" THEN ParseError("NewLine")
    ELSE IF Len(hs) >= MaxHeaders THEN ParseError("TooManyHeaders")
    ELSE
        LET ne == FirstIn(s, i, NotTokenChars)
        IN  IF ne > Len(s) THEN Partial
            ELSE IF s[ne] # ":" \/ ne = i THEN ParseError("HeaderName")
            ELSE
                LET vs == FirstNotIn(s, ne + 1, {" ", "\t"})
                    ve == FirstIn(s, vs, NotValueChars)
                IN  IF ve > Len(s) THEN Partial
                    ELSE IF NewLine(s, ve) = -1 THEN Partial
                    ELSE IF NewLine(s, ve) = 0 THEN ParseError("HeaderValue")
                    ELSE parse_headers(s, NewLine(s, ve),
                             Append(hs, [name |-> SubSeq(s, i, ne - 1),
                                         value |-> trim_end(SubSeq(s, vs, ve - 1))]))

\* leading empty lines are skipped
RECURSIVE skip_empty_lines(_, _)
skip_empty_lines(s, i) ==
    IF NewLine(s, i) > 0 THEN skip_empty_lines(s, NewLine(s, i)) ELSE i

\* Result<Status<usize>>: Complete(len) with the parsed parts, Partial, or Err
parse(s) ==
    LET m0 == skip_empty_lines(s, 1)
        me == FirstIn(s, m0, NotTokenChars)
    IN  IF me > Len(s) THEN Partial
        ELSE IF s[me] # " " \/ me = m0 THEN ParseError("Token")
        ELSE
            LET ue == FirstIn(s, me + 1, NotUriChars)
            IN  IF ue > Len(s) THEN Partial
                ELSE IF s[ue] # " " \/ ue = me + 1 THEN ParseError("Token")
                ELSE IF Len(s) < ue + VersionLen THEN Partial
                ELSE IF SubSeq(s, ue + 1, ue + VersionLen) \notin HttpVersions
                     THEN ParseError("Version")
                ELSE
                    LET nl == NewLine(s, ue + VersionLen + 1)
                    IN  IF nl = -1 THEN Partial
                        ELSE IF nl = 0 THEN ParseError("NewLine")
                        ELSE
                            LET h == parse_headers(s, nl, << >>)
                            IN  IF h.st # "Complete" THEN h
                                ELSE [st |-> "Complete", len |-> h.len,
                                      method |-> SubSeq(s, m0, me - 1),
                                      path |-> SubSeq(s, me + 1, ue - 1),
                                      headers |-> h.headers]

----------------------------------------------------------------------------
(* The body of the producer loop up to the send: lines 152-182 *)

\* HashMap::insert over the parsed headers (lines 170-176): one value per
\* name, the last occurrence winning
HeaderMap(hs) ==
    [n \in {hs[i].name : i \in DOMAIN hs} |->
        hs[CHOOSE i \in DOMAIN hs :
               hs[i].name = n /\ \A j \in DOMAIN hs : hs[j].name = n => j <= i].value]

\* the text handed to the parser (lines 155-158)
substitute(raw, word) == replace(trim_end(from_utf8_lossy(raw)), FUZZ, word)

\* Url::join (lines 163-166) with a reference that is an absolute path, as
\* the request targets of the runs explored are: the URL keeps the scheme
\* and the authority of the target and takes its path from the reference,
\* where the path ends at the first ? or #
join(reference) ==
    [path |-> SubSeq(reference, 1, FirstIn(reference, 1, {"?", "#"}) - 1)]

\* lines 152-182: ok = FALSE stands for the panic of an unwrap on line 160
materialize(raw, word) ==
    LET bytes == substitute(raw, word)
        r == parse(bytes)
    IN  IF r.st # "Complete" THEN [ok |-> FALSE, why |-> r.st]
        ELSE [ok |-> TRUE,
              request |-> [method |-> r.method,
                           path |-> r.path,
                           url |-> join(r.path),
                           headers |-> HeaderMap(r.headers),
                           body |-> Drop(bytes, r.len)]]

----------------------------------------------------------------------------
(* The collector's classification of one outcome: lines 119-146 *)

\* Result<Response, Error>: a response with its status and body, or Err
Ok(st, b) == [ok |-> TRUE, status |-> st, body |-> b]

Err == [ok |-> FALSE, status |-> 0, body |-> << >>]

\* the classification without the check of lines 139-144
classify_NoForbidden(st, b, nb, response) ==
    IF st # None /\ response.status # st[1]
        THEN [verdict |-> "FAILED", body_read |-> FALSE, at |-> "status"]
    ELSE IF b # None /\ ~contains(response.body, b[1])
        THEN [verdict |-> "FAILED", body_read |-> TRUE, at |-> "body"]
    ELSE [verdict |-> "SUCCESS", body_read |-> TRUE, at |-> "end"]

\* a classification that reads the body before it looks at the status
classify_BodyFirst(st, b, nb, response) ==
    IF b # None /\ ~contains(response.body, b[1])
        THEN [verdict |-> "FAILED", body_read |-> TRUE, at |-> "body"]
    ELSE IF st # None /\ response.status # st[1]
        THEN [verdict |-> "FAILED", body_read |-> TRUE, at |-> "status"]
    ELSE IF nb # None /\ contains(response.body, nb[1])
        THEN [verdict |-> "FAILED", body_read |-> TRUE, at |-> "not_body"]
    ELSE [verdict |-> "SUCCESS", body_read |-> TRUE, at |-> "end"]

\* what one iteration of the loop does with a received response (lines
\* 122-146): the line it prints, whether it read the body (line 129), and
\* the check at which it printed and went on to the next iteration
classify(st, b, nb, response) ==
    IF st # None /\ response.status # st[1]
        THEN [verdict |-> "FAILED", body_read |-> FALSE, at |-> "status"]
    ELSE IF b # None /\ ~contains(response.body, b[1])
        THEN [verdict |-> "FAILED", body_read |-> TRUE, at |-> "body"]
    ELSE IF nb # None /\ contains(response.body, nb[1])
        THEN [verdict |-> "FAILED", body_read |-> TRUE, at |-> "not_body"]
    ELSE [verdict |-> "SUCCESS", body_read |-> TRUE, at |-> "end"]

----------------------------------------------------------------------------
(* The pipeline *)

\* a request channel with room for two
RequestCap_Two == 1 + 1

\* a response channel with room for two
ResponseCap_Two == 1 + 1

\* capacity of the request channel (line 203) and of the response channel
\* (lines 204-205)
RequestCap == 1

ResponseCap == 1

\* retries of `for _retry in 0..3` (line 230)
Retries == 3

\* a recv that leaves the message in the channel
recv_Peek(q) == [item |-> Head(q), rest |-> q]

\* Receiver::recv on a non-empty channel (lines 119, 219): the oldest
\* message, and the channel without it
recv(q) == [item |-> Head(q), rest |-> Tail(q)]

\* all sequences over S of length at most n
SeqsUpTo(S, n) == UNION {[1..k -> S] : k \in 0..n}

\* The stopwatch: ticks since the start of the run (saturating at
\* ElapsedCap: no claim looks further) and whether every execution so far
\* returned a response within the tick it started in.  It observes the run
\* and changes nothing in it; ClockOff is the run without the observer.
ElapsedCap == MaxWords * TicksPerSec

\* The lap watches, one set per lane: ticks since the start of the lane's
\* latest execution (start), since the start of the first execution of the
\* latest request it took (first), since the return of its latest execution
\* (last); each saturates at one second and is Never before the event.
\* NoLaps is the run without them.
NoLaps == << >>

Never == -1

ClockOff == [on |-> FALSE, elapsed |-> 0, fast |-> TRUE, lap |-> NoLaps]

ClockStart == [on |-> TRUE, elapsed |-> 0, fast |-> TRUE, lap |-> NoLaps]

LapsStart ==
    [on |-> FALSE, elapsed |-> 0, fast |-> TRUE,
     lap |-> [l \in 1..MaxRate |-> [start |-> Never, first |-> Never, last |-> Never]]]

Observe(c, ticks, fast) ==
    IF ~c.on THEN c
    ELSE [c EXCEPT !.elapsed = IF @ + ticks > ElapsedCap THEN ElapsedCap ELSE @ + ticks,
                   !.fast = @ /\ fast]

\* lane l starts an execution (line 229 if of_new, else line 237)
Started(c, l, of_new) ==
    IF c.lap = NoLaps THEN c
    ELSE [c EXCEPT !.lap[l].start = 0, !.lap[l].first = IF of_new THEN 0 ELSE @]

\* the execution of lane l returns
Returned(c, l) ==
    IF c.lap = NoLaps THEN c ELSE [c EXCEPT !.lap[l].last = 0]

\* a tick passes on every lap watch
Lapse(c) ==
    IF c.lap = NoLaps THEN c
    ELSE LET adv(t) == IF t # Never /\ t < TicksPerSec THEN t + 1 ELSE t
         IN  [c EXCEPT !.lap = [l \in DOMAIN c.lap |->
                                   [start |-> adv(c.lap[l].start),
                                    first |-> adv(c.lap[l].first),
                                    last |-> adv(c.lap[l].last)]]]

Lanes == 1..MaxRate

\* a lane's locals: pc, the (request, word) it holds, executions made for
\* it, the latest result, ticks since last_request (saturating at one
\* second), ticks left of the current sleep
NotSpawned == [pc |-> "none", item |-> None, attempts |-> 0, result |-> None,
               since |-> 0, timer |-> 0]

\* a spawned lane whose last_request is the time of its spawn
Spawned_JustNow == [NotSpawned EXCEPT !.pc = "recv"]

\* lines 214-219: a spawned lane, its last_request one second in the past,
\* waiting in recv
Spawned == [NotSpawned EXCEPT !.pc = "recv", !.since = TicksPerSec]

Running == main_pc \in {"loop", "send"}

\* the state after line 148: channels created, lanes and collector spawned,
\* nothing run yet
PipelineInit ==
    /\ main_pc = "loop"
    /\ next_word = 1
    /\ cand = None
    /\ request_q = << >>
    /\ responses_q = << >>
    /\ lane = [l \in Lanes |-> IF l <= rate THEN Spawned ELSE NotSpawned]
    /\ coll_pc = "recv"
    /\ coll_count = 0
    /\ verdicts = << >>
    /\ consumed = << >>

\* an iteration from the last entry to the first
into_iter_Rev(n) == Len(wordlist) + 1 - n

\* Vec::into_iter (line 150): the index of the entry the n-th iteration of
\* the producer loop is at
into_iter(n) == n

\* lines 150-182: build the request for the next entry, or panic on line 160
Materialize ==
    /\ main_pc = "loop"
    /\ next_word <= Len(wordlist)
    /\ LET i == into_iter(next_word)
           m == materialize(raw_request, wordlist[i])
       IN  IF m.ok
           THEN /\ cand' = Some([id |-> i, word |-> wordlist[i], request |-> m.request])
                /\ main_pc' = "send"
           ELSE /\ cand' = None
                /\ main_pc' = "parse_panic"
    /\ UNCHANGED << raw_request, wordlist, rate, status, body, not_body, next_word,
                    request_q, responses_q, lane, coll_pc, coll_count, verdicts,
                    consumed, clock >>

\* Whether the two channels are closed.  The Receiver of the request channel
\* and the Sender of the response channel made on lines 203-205 are dropped
\* when rate_limiting_requests returns (line 246); what is left of them are
\* the clones of lines 210-211, one pair per lane, and a lane never ends
\* while req_tx lives.  With no lane, both channels are closed from the start.
Closed == rate = 0

\* line 184: the send completes when the channel has room; on a closed
\* channel it returns Err at once and the unwrap panics
Submit ==
    /\ main_pc = "send"
    /\ IF Closed
       THEN /\ main_pc' = "send_panic"
            /\ cand' = None
            /\ UNCHANGED << request_q, next_word >>
       ELSE /\ Len(request_q) < RequestCap
            /\ request_q' = Append(request_q, cand[1])
            /\ cand' = None
            /\ next_word' = next_word + 1
            /\ main_pc' = "loop"
    /\ UNCHANGED << raw_request, wordlist, rate, status, body, not_body,
                    responses_q, lane, coll_pc, coll_count, verdicts, consumed, clock >>

\* line 187: the collector's JoinHandle resolves; Err(JoinError) if it panicked
Join ==
    /\ main_pc = "loop"
    /\ next_word > Len(wordlist)
    /\ coll_pc \in {"done", "panicked"}
    /\ main_pc' = IF coll_pc = "done" THEN "done" ELSE "join_panic"
    /\ UNCHANGED << raw_request, wordlist, rate, status, body, not_body, next_word,
                    cand, request_q, responses_q, lane, coll_pc, coll_count,
                    verdicts, consumed, clock >>

\* a sleep one tick short of the rest of the second
PacingSleep_Short(since) == IF since < TicksPerSec THEN TicksPerSec - since - 1 ELSE 0

\* lines 220-224: the sleep before an execution, given the ticks since
\* last_request: what is left of the second, 0 for no sleep
PacingSleep(since) == IF since < TicksPerSec THEN TicksPerSec - since ELSE 0

\* Lanes run the same code on clones of the same channels (lines 210-212):
\* waiting lanes with equal locals (and equal lap watches, when these are
\* on) are interchangeable, and the one with the lowest index stands for
\* whichever of them receives.
FirstOfItsKind(l) ==
    \A k \in Lanes :
        k < l => \/ lane[k] # lane[l]
                 \/ clock.lap # NoLaps /\ clock.lap[k] # clock.lap[l]

\* lines 219-225: take a request; sleep for what is left of the second
LaneRecv(l) ==
    /\ Running
    /\ lane[l].pc = "recv"
    /\ FirstOfItsKind(l)
    /\ request_q # << >>
    /\ request_q' = recv(request_q).rest
    /\ lane' = [lane EXCEPT
           ![l].item = Some(recv(request_q).item),
           ![l].attempts = 0,
           ![l].result = None,
           ![l].pc = IF PacingSleep(lane[l].since) > 0 THEN "pacing" ELSE "exec",
           ![l].timer = PacingSleep(lane[l].since)]
    /\ clock' = IF PacingSleep(lane[l].since) > 0 THEN clock ELSE Started(clock, l, TRUE)
    /\ UNCHANGED << raw_request, wordlist, rate, status, body, not_body, main_pc,
                    next_word, cand, responses_q, coll_pc, coll_count, verdicts,
                    consumed >>

\* the sleep of line 224 or of line 235 is over: start an execution
LaneWake(l) ==
    /\ Running
    /\ lane[l].pc \in {"pacing", "backoff"}
    /\ lane[l].timer = 0
    /\ lane' = [lane EXCEPT ![l].pc = "exec"]
    /\ clock' = Started(clock, l, lane[l].pc = "pacing")
    /\ UNCHANGED << raw_request, wordlist, rate, status, body, not_body, main_pc,
                    next_word, cand, request_q, responses_q, coll_pc, coll_count,
                    verdicts, consumed >>

\* a backoff one tick short of the second
Backoff_Short == TicksPerSec - 1

\* the sleep of line 235 before a retry
Backoff == TicksPerSec

\* a retry loop that also retries a response with a server-error status
RetryAgain_OnServerError(n, r) == (~r.ok \/ r.status >= 500) /\ n - 1 < Retries

\* a retry loop that runs once more
RetryAgain_OneMore(n, r) == ~r.ok /\ n - 1 <= Retries

\* whether the loop of lines 230-238 goes on to another execution, after
\* n executions the latest of which returned r
RetryAgain(n, r) == ~r.ok /\ n - 1 < Retries

\* client.execute returns (line 229 or 237) with r; then either the backoff
\* of line 235, or line 239 and on to the send
LaneExecuted(l, r) ==
    /\ Running
    /\ lane[l].pc = "exec"
    /\ LET n == lane[l].attempts + 1
       IN  lane' = [lane EXCEPT
               ![l].attempts = n,
               ![l].result = Some(r),
               ![l].pc = IF RetryAgain(n, r) THEN "backoff" ELSE "send",
               ![l].timer = IF RetryAgain(n, r) THEN Backoff ELSE 0,
               ![l].since = IF RetryAgain(n, r) THEN lane[l].since ELSE 0]
    /\ clock' = Returned(Observe(clock, 0, r.ok), l)
    /\ UNCHANGED << raw_request, wordlist, rate, status, body, not_body, main_pc,
                    next_word, cand, request_q, responses_q, coll_pc, coll_count,
                    verdicts, consumed >>

\* line 241: the send completes when the channel has room
LanePublish(l) ==
    /\ Running
    /\ lane[l].pc = "send"
    /\ Len(responses_q) < ResponseCap
    /\ responses_q' = Append(responses_q,
           [id |-> lane[l].item[1].id, word |-> lane[l].item[1].word,
            result |-> lane[l].result[1]])
    /\ lane' = [lane EXCEPT ![l].pc = "recv", ![l].item = None,
                            ![l].result = None, ![l].attempts = 0]
    /\ UNCHANGED << raw_request, wordlist, rate, status, body, not_body, main_pc,
                    next_word, cand, request_q, coll_pc, coll_count, verdicts,
                    consumed, clock >>

\* one iteration of the collector's loop (lines 118-147); a recv on the
\* closed, empty channel returns Err and the unwrap of line 119 panics
Collect ==
    /\ Running
    /\ coll_pc = "recv"
    /\ coll_count < Len(wordlist)
    /\ IF responses_q = << >>
       THEN /\ Closed
            /\ coll_pc' = "panicked"
            /\ UNCHANGED << responses_q, consumed, coll_count, verdicts >>
       ELSE /\ responses_q' = recv(responses_q).rest
            /\ LET o == recv(responses_q).item
               IN  /\ consumed' = Append(consumed, o)
                   /\ IF ~o.result.ok
                      THEN /\ coll_pc' = "panicked"
                           /\ UNCHANGED << coll_count, verdicts >>
                      ELSE LET c == classify(status, body, not_body, o.result)
                           IN  /\ verdicts' = Append(verdicts,
                                      [id |-> o.id, word |-> o.word,
                                       verdict |-> c.verdict,
                                       body_read |-> c.body_read, at |-> c.at])
                               /\ coll_count' = coll_count + 1
                               /\ coll_pc' = "recv"
    /\ UNCHANGED << raw_request, wordlist, rate, status, body, not_body, main_pc,
                    next_word, cand, request_q, lane, clock >>

\* the loop of line 118 is over: the task returns
CollectorReturn ==
    /\ Running
    /\ coll_pc = "recv"
    /\ coll_count = Len(wordlist)
    /\ coll_pc' = "done"
    /\ UNCHANGED << raw_request, wordlist, rate, status, body, not_body, main_pc,
                    next_word, cand, request_q, responses_q, lane, coll_count,
                    verdicts, consumed, clock >>

\* one tick of time passes for every task
Tick ==
    /\ Running
    /\ lane' = [l \in Lanes |->
           [lane[l] EXCEPT
               !.since = IF lane[l].pc = "none" THEN 0
                         ELSE IF @ < TicksPerSec THEN @ + 1 ELSE @,
               !.timer = IF @ > 0 THEN @ - 1 ELSE 0]]
    /\ clock' = Lapse(Observe(clock, 1, \A l \in Lanes : lane[l].pc # "exec"))
    /\ UNCHANGED << raw_request, wordlist, rate, status, body, not_body, main_pc,
                    next_word, cand, request_q, responses_q, coll_pc, coll_count,
                    verdicts, consumed >>

----------------------------------------------------------------------------
(* The runs explored *)

\* POST /FUZZ HTTP/1.1 CRLF CRLF x
PipelineTemplate ==
    << "P", "O", "S", "T", " ", "/", "F", "U", "Z", "Z", " ",
       "H", "T", "T", "P", "/", "1", ".", "1", "\r", "\n", "\r", "\n", "x" >>

\* wordlist entries: a plain one, the empty line, one that breaks the
\* request line
PipelineWords == { << "a" >>, << >>, << "a", " ", "b" >> }

BreakingWord == << "a", " ", "b" >>

\* The wordlists of the pipeline runs.  The pipeline reads an entry only to
\* substitute and parse it; past that point the text is carried along
\* untouched.  So every pattern of parsing and breaking entries is taken,
\* with the parsing entries alternating between the plain one and the empty
\* line: a list has repeated entries, an empty entry, and neighbours with
\* different texts.
PipelineWordlists ==
    { wl \in SeqsUpTo(PipelineWords, MaxWords) :
        \A i \in DOMAIN wl :
            wl[i] \in {BreakingWord, IF i % 2 = 1 THEN << "a" >> ELSE << >>} }

\* what the target answers in the pipeline runs (how a response is classified
\* is explored under SpecClassify)
PipelineResponses == { Ok(200, << "o", "k" >>) }

Init ==
    /\ raw_request = PipelineTemplate
    /\ wordlist \in PipelineWordlists
    /\ rate \in 0..MaxRate
    /\ status = Some(200)
    /\ body = None
    /\ not_body = None
    /\ clock = ClockOff
    /\ PipelineInit

Next ==
    \/ Materialize
    \/ Submit
    \/ Join
    \/ \E l \in Lanes : LaneRecv(l)
    \/ \E l \in Lanes : LaneWake(l)
    \/ \E l \in Lanes : \E r \in PipelineResponses \cup {Err} : LaneExecuted(l, r)
    \/ \E l \in Lanes : LanePublish(l)
    \/ Collect
    \/ CollectorReturn
    \/ Tick

Spec == Init /\ [][Next]_vars

\* the same runs with the stopwatch on; the entries' texts play no part in
\* the timing, so they are all the same
InitClock ==
    /\ raw_request = PipelineTemplate
    /\ wordlist \in SeqsUpTo({<< "a" >>}, MaxWords)
    /\ rate \in 0..MaxRate
    /\ status = Some(200)
    /\ body = None
    /\ not_body = None
    /\ clock = ClockStart
    /\ PipelineInit

SpecClock == InitClock /\ [][Next]_vars

\* runs with the lap watches on, over wordlists one entry shorter
InitLaps ==
    /\ raw_request = PipelineTemplate
    /\ wordlist \in SeqsUpTo({<< "a" >>}, MaxWords - 1)
    /\ rate \in 1..MaxRate
    /\ status = Some(200)
    /\ body = None
    /\ not_body = None
    /\ clock = LapsStart
    /\ PipelineInit

SpecLaps == InitLaps /\ [][Next]_vars

\* Runs of one or two entries against a target that answers with any of
\* three status codes, or not at all; lap watches on
LaneResponses == { Ok(200, << "o", "k" >>), Ok(404, << >>), Ok(500, << >>) }

InitRetry ==
    /\ raw_request = PipelineTemplate
    /\ wordlist \in { << << "a" >> >>, << << "a" >>, << >> >> }
    /\ rate \in 1..MaxRate
    /\ status = Some(200)
    /\ body = None
    /\ not_body = None
    /\ clock = LapsStart
    /\ PipelineInit

NextRetry ==
    \/ Materialize
    \/ Submit
    \/ Join
    \/ \E l \in Lanes : LaneRecv(l)
    \/ \E l \in Lanes : LaneWake(l)
    \/ \E l \in Lanes : \E r \in LaneResponses \cup {Err} : LaneExecuted(l, r)
    \/ \E l \in Lanes : LanePublish(l)
    \/ Collect
    \/ CollectorReturn
    \/ Tick

SpecRetry == InitRetry /\ [][NextRetry]_vars

\* a run of one lane over a wordlist longer than the pipeline can hold
LongWordlist == [i \in 1..(MaxWords + 2) |-> << "a" >>]

InitLong ==
    /\ raw_request = PipelineTemplate
    /\ wordlist = LongWordlist
    /\ rate = 1
    /\ status = Some(200)
    /\ body = None
    /\ not_body = None
    /\ clock = ClockOff
    /\ PipelineInit

SpecLong == InitLong /\ [][Next]_vars

----------------------------------------------------------------------------
(* Materialization alone: one entry, over a range of raw requests *)

\* GET /FUZZ HTTP/1.1 CRLF Host: t CRLF CRLF (no body)
TemplateGet ==
    << "G", "E", "T", " ", "/", "F", "U", "Z", "Z", " ", "H", "T", "T", "P",
       "/", "1", ".", "1", "\r", "\n", "H", "o", "s", "t", ":", " ", "t",
       "\r", "\n", "\r", "\n" >>

\* GET /FUZZ HTTP/1.1 (the request line alone)
TemplateBare ==
    << "G", "E", "T", " ", "/", "F", "U", "Z", "Z", " ", "H", "T", "T", "P",
       "/", "1", ".", "1" >>

\* GET /FUZZ HTTP/1.1 CRLF CRLF (the request line and the blank line)
TemplateBareCRLF ==
    << "G", "E", "T", " ", "/", "F", "U", "Z", "Z", " ", "H", "T", "T", "P",
       "/", "1", ".", "1", "\r", "\n", "\r", "\n" >>

\* POST /FUZZ HTTP/1.1 CRLF X: FUZZ CRLF CRLF FUZZ=FUZZ
TemplateFuzzAll ==
    << "P", "O", "S", "T", " ", "/", "F", "U", "Z", "Z", " ", "H", "T", "T",
       "P", "/", "1", ".", "1", "\r", "\n", "X", ":", " ", "F", "U", "Z",
       "Z", "\r", "\n", "\r", "\n", "F", "U", "Z", "Z", "=", "F", "U", "Z",
       "Z" >>

\* POST /FUZZ HTTP/1.1 CRLF H: FUZZ CRLF H: w CRLF CRLF u=FUZZ LF
TemplatePost ==
    << "P", "O", "S", "T", " ", "/", "F", "U", "Z", "Z", " ", "H", "T", "T",
       "P", "/", "1", ".", "1", "\r", "\n", "H", ":", " ", "F", "U", "Z",
       "Z", "\r", "\n", "H", ":", " ", "w", "\r", "\n", "\r", "\n", "u", "=",
       "F", "U", "Z", "Z", "\n" >>

\* POST /l HTTP/1.1 CRLF Content-Length: 4 CRLF CRLF abcd
TemplateLen ==
    << "P", "O", "S", "T", " ", "/", "l", " ", "H", "T", "T", "P", "/", "1",
       ".", "1", "\r", "\n", "C", "o", "n", "t", "e", "n", "t", "-", "L",
       "e", "n", "g", "t", "h", ":", " ", "4", "\r", "\n", "\r", "\n", "a",
       "b", "c", "d" >>

\* the same followed by the bytes XY
TemplateLenGarbage ==
    << "P", "O", "S", "T", " ", "/", "l", " ", "H", "T", "T", "P", "/", "1",
       ".", "1", "\r", "\n", "C", "o", "n", "t", "e", "n", "t", "-", "L",
       "e", "n", "g", "t", "h", ":", " ", "4", "\r", "\n", "\r", "\n", "a",
       "b", "c", "d", "X", "Y" >>

\* Content-Length: 4 and the body abcd followed by CRLF
TemplateLenNewline ==
    << "P", "O", "S", "T", " ", "/", "l", " ", "H", "T", "T", "P", "/", "1",
       ".", "1", "\r", "\n", "C", "o", "n", "t", "e", "n", "t", "-", "L",
       "e", "n", "g", "t", "h", ":", " ", "4", "\r", "\n", "\r", "\n", "a",
       "b", "c", "d", "\r", "\n" >>

\* Content-Length: 4 and the body p=FUZZ
TemplateLenFuzz ==
    << "P", "O", "S", "T", " ", "/", "l", " ", "H", "T", "T", "P", "/", "1",
       ".", "1", "\r", "\n", "C", "o", "n", "t", "e", "n", "t", "-", "L",
       "e", "n", "g", "t", "h", ":", " ", "4", "\r", "\n", "\r", "\n", "p",
       "=", "F", "U", "Z", "Z" >>

\* POST /l HTTP/1.1 CRLF CRLF then an invalid byte and FUZZ
TemplateBadByte ==
    << "P", "O", "S", "T", " ", "/", "l", " ", "H", "T", "T", "P", "/", "1",
       ".", "1", "\r", "\n", "\r", "\n", "\\xFF", "F", "U", "Z", "Z" >>

MatTemplates ==
    { TemplateGet,
      TemplateBare,
      TemplateBareCRLF,
      TemplateFuzzAll,
      TemplatePost,
      TemplateLen,
      TemplateLenGarbage,
      TemplateLenNewline,
      TemplateLenFuzz,
      TemplateBadByte,
      PipelineTemplate }

\* entries: lines of a UTF-8 file with trailing whitespace trimmed (lines
\* 103-106)
MatWords ==
    { << "a" >>,
      << >>,
      << "a", " ", "b" >>,
      << "a", "d", "m", "i", "n" >>,
      << "F", "U", "Z", "Z" >>,
      << "x", "F", "U", "Z", "Z" >>,
      << "a", "\t", "b" >>,
      << "Z", "Z" >> }

InitMat ==
    /\ raw_request \in MatTemplates
    /\ wordlist \in {<< w >> : w \in MatWords}
    /\ rate = 1
    /\ status = Some(200)
    /\ body = None
    /\ not_body = None
    /\ clock = ClockOff
    /\ PipelineInit

NextMat ==
    \/ Materialize
    \/ Submit

SpecMat == InitMat /\ [][NextMat]_vars

----------------------------------------------------------------------------
(* Classification alone: one outcome waiting in the response channel, over
   a range of success criteria and responses *)

MaxBodyLen == 2

BodyChars == {"a", "b"}

Statuses == {200, 404}

Patterns == SeqsUpTo(BodyChars, MaxBodyLen)

Responses == {Ok(st, b) : st \in Statuses, b \in SeqsUpTo(BodyChars, MaxBodyLen)}

Option(S) == {None} \cup {Some(v) : v \in S}

\* the state in which the only lane has published the outcome of the only
\* entry and the collector has not run yet
InitClassify ==
    /\ raw_request = PipelineTemplate
    /\ wordlist = << << "a" >> >>
    /\ rate = 1
    /\ status \in Option(Statuses)
    /\ body \in Option(Patterns)
    /\ not_body \in Option(Patterns)
    /\ clock = ClockOff
    /\ main_pc = "loop"
    /\ next_word = 2
    /\ cand = None
    /\ request_q = << >>
    /\ \E r \in Responses \cup {Err} :
           responses_q = << [id |-> 1, word |-> << "a" >>, result |-> r] >>
    /\ lane = [l \in Lanes |-> IF l <= rate THEN [Spawned EXCEPT !.since = 0]
                                ELSE NotSpawned]
    /\ coll_pc = "recv"
    /\ coll_count = 0
    /\ verdicts = << >>
    /\ consumed = << >>

NextClassify ==
    \/ Collect
    \/ CollectorReturn
    \/ Join

SpecClassify == InitClassify /\ [][NextClassify]_vars

----------------------------------------------------------------------------
(* Vocabulary of the claims *)

RunEnded == main_pc \in {"done", "parse_panic", "send_panic", "join_panic"}

\* every entry of the wordlist materializes
AllMaterialize == \A i \in DOMAIN wordlist : materialize(raw_request, wordlist[i]).ok

Occurrences(E) == Cardinality({i \in DOMAIN wordlist : wordlist[i] = E})

VerdictsFor(E) == Cardinality({k \in DOMAIN verdicts : verdicts[k].word = E})

CeilDiv(m, n) == (m + n - 1) \div n

SpawnedLanes == 1..rate

\* where the request of entry i is: how many copies each place holds
InRequestQ(i) == Cardinality({k \in DOMAIN request_q : request_q[k].id = i})

InLanes(i) == Cardinality({l \in Lanes : lane[l].item # None /\ lane[l].item[1].id = i})

InResponsesQ(i) == Cardinality({k \in DOMAIN responses_q : responses_q[k].id = i})

InConsumed(i) == Cardinality({k \in DOMAIN consumed : consumed[k].id = i})

Copies(i) == InRequestQ(i) + InLanes(i) + InResponsesQ(i) + InConsumed(i)

\* C1: when the run ends, every wordlist entry has exactly one verdict with
\* its text as tag (as many verdicts tagged E as E occurs in the wordlist),
\* whatever the outcomes of the request attempts.
C1_OneVerdictPerEntry ==
    (RunEnded /\ rate >= 1 /\ AllMaterialize) =>
        \A i \in DOMAIN wordlist : VerdictsFor(wordlist[i]) = Occurrences(wordlist[i])

\* C2: an outcome that is a transport failure gets a FAILED verdict from the
\* collector, and the collector goes on (it does not stop the run).
C2_FailureVerdictAndContinue ==
    \A k \in DOMAIN consumed :
        ~consumed[k].result.ok =>
            /\ \E v \in DOMAIN verdicts :
                   verdicts[v].id = consumed[k].id /\ verdicts[v].verdict = "FAILED"
            /\ coll_pc # "panicked"
            /\ main_pc # "join_panic"

\* the lane that publishes in this step, if any
Publishes(l) == lane[l].pc = "send" /\ lane'[l].pc = "recv"

\* C3: a lane makes at most 4 executions per request, one at a time; a
\* backoff is entered only after a failure and with fewer than 4 executions
\* made; after the 4th failure the lane goes on to publish; and what a lane
\* publishes after 4 failures is a failure outcome with the text of the
\* entry, put on the response channel.
C3_RetryCap ==
    [][/\ \A l \in SpawnedLanes :
              /\ lane'[l].attempts <= 4
              /\ lane'[l].pc = "exec" => lane'[l].attempts <= 3 /\ lane'[l].item # None
              /\ lane'[l].pc = "backoff" =>
                     /\ lane'[l].attempts <= 3
                     /\ lane'[l].result # None /\ ~lane'[l].result[1].ok
              /\ (lane'[l].attempts = 4 /\ lane'[l].item # None) =>
                     lane'[l].pc = "send" /\ lane'[l].result # None
              /\ (lane'[l].pc = "send" /\ ~lane'[l].result[1].ok) => lane'[l].attempts = 4
       /\ \A l \in SpawnedLanes :
              (Publishes(l) /\ ~lane[l].result[1].ok) =>
                  /\ lane[l].attempts = 4
                  /\ responses_q' = Append(responses_q,
                         [id |-> lane[l].item[1].id,
                          word |-> wordlist[lane[l].item[1].id],
                          result |-> Err])]_vars

C3_Witness ==
    /\ responses_q # << >>
    /\ ~responses_q[1].result.ok
    /\ responses_q[1].word = << "a" >>
    /\ \E l \in SpawnedLanes : lane[l].pc = "backoff" /\ lane[l].attempts = 3

C5_AtLeastCeilSeconds ==
    (clock.on /\ clock.fast /\ rate >= 1 /\ Len(wordlist) >= rate
        /\ Len(verdicts) = Len(wordlist)) =>
        clock.elapsed >= CeilDiv(Len(wordlist), rate) * TicksPerSec

\* C5 as amended: ... no sooner than ceil(M/N) - 1 seconds after the start
\* (a lane's first request is not paced).
C5_AtLeastCeilMinusOneSeconds ==
    (clock.on /\ clock.fast /\ rate >= 1 /\ Len(wordlist) >= rate
        /\ Len(verdicts) = Len(wordlist)) =>
        clock.elapsed >= (CeilDiv(Len(wordlist), rate) - 1) * TicksPerSec

C5_Witness ==
    /\ clock.on /\ clock.fast
    /\ rate >= 1
    /\ Len(wordlist) > rate
    /\ Len(verdicts) = Len(wordlist)
    /\ clock.elapsed = (CeilDiv(Len(wordlist), rate) - 1) * TicksPerSec

\* C6: the request of every entry whose send has completed is in exactly
\* one place (the request channel, one lane, the response channel as its
\* outcome, or received by the collector) and that of every other entry in
\* none; it keeps the text of its entry; no lane holds two.
C6_ExactlyOnceHandoff ==
    /\ \A i \in DOMAIN wordlist : Copies(i) = IF i < next_word THEN 1 ELSE 0
    /\ \A k \in DOMAIN request_q : request_q[k].word = wordlist[request_q[k].id]
    /\ \A k \in DOMAIN responses_q : responses_q[k].word = wordlist[responses_q[k].id]
    /\ \A k \in DOMAIN consumed : consumed[k].word = wordlist[consumed[k].id]
    /\ \A l \in Lanes :
           /\ Len(lane[l].item) <= 1
           /\ lane[l].item # None => lane[l].item[1].word = wordlist[lane[l].item[1].id]
           /\ lane[l].item # None <=> lane[l].pc \in {"pacing", "exec", "backoff", "send"}

C6_Witness ==
    /\ rate = 2
    /\ wordlist = << << "a" >>, << >>, << "a" >> >>
    /\ Len(consumed) = 1
    /\ Len(responses_q) = 1
    /\ consumed[1].id = 2
    /\ responses_q[1].id = 1
    /\ \E l \in SpawnedLanes : lane[l].pc = "send" /\ lane[l].item[1].id = 3

\* C7: the collector stops only by returning after wordlist-length outcomes,
\* and the run then completes.
C7_CollectorTerminatesAfterAll ==
    (coll_pc \in {"done", "panicked"} /\ rate >= 1 /\ AllMaterialize) =>
        /\ coll_pc = "done"
        /\ Len(consumed) = Len(wordlist)
        /\ main_pc # "join_panic"

\* C8: a run that ends on an entry whose substituted template does not
\* parse has emitted no verdict.
C8_NoVerdictOnFatal == main_pc = "parse_panic" => verdicts = << >>

AllLanesBusy == \A l \in SpawnedLanes : lane[l].pc \in {"pacing", "exec", "backoff", "send"}

\* C9 as stated: a send on the request channel completes only when some
\* lane is free to take the request.
C9_SendNeedsFreeLane ==
    [][(rate >= 1 /\ next_word' > next_word) => ~AllLanesBusy]_vars

\* C9 as amended: a send on the request channel completes only into the
\* empty channel, which never holds more than one request.
C9_SendNeedsEmptySlot ==
    [][/\ Len(request_q') <= 1
       /\ next_word' > next_word => request_q = << >>]_vars

C9_Witness ==
    /\ rate >= 1
    /\ AllLanesBusy
    /\ Len(request_q) = 1
    /\ main_pc = "send"

\* the number a header value spells, -1 if it is not all digits
Digits == << "0", "1", "2", "3", "4", "5", "6", "7", "8", "9" >>

DigitValue(c) == (CHOOSE d \in DOMAIN Digits : Digits[d] = c) - 1

RECURSIVE Number(_)
Number(v) ==
    IF v = << >> THEN 0
    ELSE IF \E c \in {v[j] : j \in DOMAIN v} : \A d \in DOMAIN Digits : Digits[d] # c THEN -1
    ELSE Number(SubSeq(v, 1, Len(v) - 1)) * 10 + DigitValue(v[Len(v)])

ContentLength == << "C", "o", "n", "t", "e", "n", "t", "-", "L", "e", "n", "g", "t", "h" >>

\* the raw request with the word substituted but nothing trimmed
Untrimmed(raw, word) == replace(from_utf8_lossy(raw), FUZZ, word)

\* C10: when the request declares Content-Length: k and at least k bytes
\* follow the blank line, the body of the materialized request is exactly
\* the first k of them.
C10_BodyIsDeclaredLength ==
    cand # None =>
        LET req == cand[1].request
            text == Untrimmed(raw_request, cand[1].word)
        IN  (ContentLength \in DOMAIN req.headers
                /\ req.headers[ContentLength] # << >>
                /\ Number(req.headers[ContentLength]) >= 0) =>
                LET k == Number(req.headers[ContentLength])
                    p == parse(substitute(raw_request, cand[1].word))
                    rest == Drop(text, p.len)
                IN  Len(rest) >= k => req.body = SubSeq(rest, 1, k)

\* C11: a run with rate = 0 is rejected before anything is done: no request
\* is ever materialized or sent, no verdict is printed, and the run does
\* not complete normally, whatever the wordlist (the empty one included).
C11_ZeroRateRejected ==
    rate = 0 =>
        /\ main_pc \notin {"send", "send_panic", "done"}
        /\ cand = None
        /\ request_q = << >>
        /\ verdicts = << >>

\* steps of a lane: an execution returns, an execution starts, a retry starts
Returns(l) == lane[l].pc = "exec" /\ lane'[l].pc # "exec"

StartsExec(l) == lane[l].pc # "exec" /\ lane'[l].pc = "exec"

StartsRetry(l) == lane[l].pc = "backoff" /\ lane'[l].pc = "exec"

\* C12: an execution that returns a response, whatever its status code, is
\* the last one for its request, and the lane goes on to publish that very
\* response; a backoff is entered only after a transport failure; and a
\* retry starts no sooner than one second after the failed execution
\* returned.
C12_RetryOnlyOnTransportFailure ==
    [][\A l \in SpawnedLanes :
           /\ (Returns(l) /\ lane'[l].result[1].ok) => lane'[l].pc = "send"
           /\ lane'[l].pc = "backoff" => ~lane'[l].result[1].ok
           /\ StartsRetry(l) =>
                  /\ ~lane[l].result[1].ok
                  /\ clock.lap[l].last = TicksPerSec
           /\ (lane[l].pc = "send" /\ lane'[l].pc = "send") =>
                  lane'[l].result = lane[l].result
           /\ (Publishes(l) /\ lane[l].result[1].ok) =>
                  responses_q' = Append(responses_q,
                      [id |-> lane[l].item[1].id, word |-> lane[l].item[1].word,
                       result |-> lane[l].result[1]])]_vars

C12_Witness ==
    \E k \in DOMAIN responses_q :
        /\ responses_q[k].result.ok
        /\ responses_q[k].result.status = 500
        /\ \E l \in SpawnedLanes :
               /\ lane[l].pc = "send"
               /\ lane[l].attempts = 2
               /\ lane[l].result[1].status = 404

\* the first execution for a request starts: straight from the recv, or
\* after the pacing sleep
StartsFirst(l) == StartsExec(l) /\ lane[l].pc # "backoff"

\* a lane takes a request
Takes(l) == lane[l].pc = "recv" /\ lane'[l].pc # "recv"

\* C13: in every lane, the first execution for a request starts no sooner
\* than one second after the first execution for the request the lane
\* handled before it started; and the first request a lane takes goes to
\* its execution at once, with no pacing sleep.
C13_ConsecutiveRequestsPaced ==
    [][\A l \in SpawnedLanes :
           /\ StartsFirst(l) => clock.lap[l].first \in {Never, TicksPerSec}
           /\ (Takes(l) /\ clock.lap[l].first = Never) =>
                  lane'[l].pc = "exec" /\ lane'[l].timer = 0]_vars

C13_Witness ==
    /\ rate = 1
    /\ lane[1].pc = "exec"
    /\ lane[1].item[1].id = 1 + 1
    /\ lane[1].attempts = 0
    /\ clock.lap[1].first = 0
    /\ Len(verdicts) = 1

\* lanes that started an execution less than a second ago
RecentStarters == {l \in SpawnedLanes : clock.lap[l].start \notin {Never, TicksPerSec}}

\* C18: in every lane an execution, be it a retry or the first one for the
\* next request, starts no sooner than one second after the start of the
\* lane's previous execution; so the executions started within less than a
\* second are of different lanes, at most `rate` of them.
C18_AttemptStartsSpaced ==
    [][/\ \A l \in SpawnedLanes :
              StartsExec(l) => clock.lap[l].start \in {Never, TicksPerSec}
       /\ Cardinality({l \in SpawnedLanes : StartsExec(l)})
              + Cardinality({l \in RecentStarters : ~StartsExec(l)}) <= rate]_vars

\* every lane has just started an execution, one of them a retry, another
\* the first execution for its request
C18_Witness ==
    /\ rate = MaxRate
    /\ \A l \in SpawnedLanes : lane[l].pc = "exec" /\ clock.lap[l].start = 0
    /\ \E l \in SpawnedLanes : lane[l].attempts = 1
    /\ \E l \in SpawnedLanes : lane[l].attempts = 0

\* the entries whose request some lane has taken so far
Taken == {i \in DOMAIN wordlist : InLanes(i) + InResponsesQ(i) + InConsumed(i) > 0}

\* C14: the n-th request to enter the request channel is that of the n-th
\* entry of the wordlist; a lane takes the request of entry j only when the
\* requests of all entries before j have been taken, and that of j has not;
\* and the verdicts are printed in the order in which the collector receives
\* the outcomes.
C14_QueueInWordlistOrder ==
    [][/\ next_word' > next_word =>
              /\ next_word' = next_word + 1
              /\ Len(request_q') = Len(request_q) + 1
              /\ request_q'[Len(request_q')].id = next_word
              /\ request_q'[Len(request_q')].word = wordlist[next_word]
       /\ \A l \in SpawnedLanes :
              Takes(l) => Taken = 1..(lane'[l].item[1].id - 1)
       /\ \A k \in DOMAIN verdicts' : verdicts'[k].id = consumed'[k].id]_vars

\* verdicts in an order other than that of the wordlist
C14_Witness ==
    /\ rate >= 1 + 1
    /\ Len(verdicts) = Len(wordlist)
    /\ \E k \in DOMAIN verdicts : k + 1 \in DOMAIN verdicts /\ verdicts[k].id > verdicts[k + 1].id
    /\ request_q = << >>

\* the checks a response fails, among those configured
FailsStatus(r) == status # None /\ r.status # status[1]

FailsBody(r) == body # None /\ ~contains(r.body, body[1])

FailsNotBody(r) == not_body # None /\ contains(r.body, not_body[1])

\* C15: a received response gets exactly one line, printed at the first
\* check it fails in the order status, required substring, forbidden
\* substring (at the end, if it fails none); when it fails the status check
\* its body is not read.
C15_FirstFailingCheckDecides ==
    \A k \in DOMAIN consumed :
        consumed[k].result.ok =>
            LET r == consumed[k].result
                mine == {v \in DOMAIN verdicts : verdicts[v].id = consumed[k].id}
            IN  /\ Cardinality(mine) = 1
                /\ \A v \in mine :
                       /\ verdicts[v].at =
                              IF FailsStatus(r) THEN "status"
                              ELSE IF FailsBody(r) THEN "body"
                              ELSE IF FailsNotBody(r) THEN "not_body"
                              ELSE "end"
                       /\ verdicts[v].body_read <=> ~FailsStatus(r)
                       /\ verdicts[v].verdict = "FAILED" <=> verdicts[v].at # "end"

\* a response that fails all three checks
C15_Witness ==
    /\ Len(consumed) = 1
    /\ consumed[1].result.ok
    /\ FailsStatus(consumed[1].result)
    /\ FailsBody(consumed[1].result)
    /\ FailsNotBody(consumed[1].result)
    /\ Len(verdicts) = 1
    /\ ~verdicts[1].body_read

\* the number of occurrences of pat in s, counted from the left without
\* overlap
RECURSIVE CountOf(_, _)
CountOf(s, pat) ==
    IF Len(s) < Len(pat) THEN 0
    ELSE IF StartsWith(s, pat) THEN 1 + CountOf(Drop(s, Len(pat)), pat)
    ELSE CountOf(Tail(s), pat)

Admin == << "a", "d", "m", "i", "n" >>

\* the producer has been through lines 152-182 for the only entry
Materialized == main_pc \in {"send", "parse_panic"}

\* C16, first part: every FUZZ of the skeleton gives way to the text of the
\* entry, once: the text grows by the difference of the lengths for each
\* occurrence, and with FUZZ in the request line, in a header value and in
\* the body, the path, the header and the body of the request carry the
\* entry verbatim, an entry with FUZZ in it included.
C16_EveryOccurrenceOnce ==
    Materialized =>
        LET w == wordlist[1]
            t == trim_end(from_utf8_lossy(raw_request))
        IN  /\ Len(substitute(raw_request, w))
                   = Len(t) + CountOf(t, FUZZ) * (Len(w) - Len(FUZZ))
            /\ (raw_request = TemplateFuzzAll /\ cand # None) =>
                   /\ cand[1].request.path = << "/" >> \o w
                   /\ cand[1].request.headers[<< "X" >>] = w
                   /\ cand[1].request.body = w \o << "=" >> \o w

\* C16, second part: the skeleton GET /FUZZ HTTP/1.1 without a body
\* materializes with the entry admin, and the path of the URL is /admin.
C16_BodylessGetResolves ==
    (Materialized /\ raw_request \in {TemplateBare, TemplateBareCRLF}
        /\ wordlist[1] = Admin) =>
        /\ cand # None
        /\ cand[1].request.url.path = << "/" >> \o Admin

\* C16: both parts.
C16_SubstitutionAndBodylessGet == C16_EveryOccurrenceOnce /\ C16_BodylessGetResolves

\* requests sent by the producer whose outcome the collector has not received
InFlight == (next_word - 1) - Len(consumed)

\* C17: the requests sent and not yet received back by the collector are at
\* most rate + 2: at most one in the request channel, one in each lane, one
\* in the response channel.
C17_InFlightBounded ==
    /\ InFlight <= rate + 2
    /\ InFlight = Len(request_q) + Cardinality({l \in Lanes : lane[l].item # None})
                      + Len(responses_q)
    /\ Len(request_q) <= 1
    /\ Len(responses_q) <= 1
    /\ \A l \in Lanes : Len(lane[l].item) <= 1
    /\ \A l \in Lanes : lane[l].item # None => l \in SpawnedLanes

C17_Witness ==
    /\ rate >= 1
    /\ InFlight = rate + 2
    /\ Len(request_q) = 1
    /\ Len(responses_q) = 1
    /\ AllLanesBusy

\* the tasks that wait on a channel operation that cannot complete, or have
\* stopped
ProducerBlocked ==
    \/ main_pc = "send" /\ ~Closed /\ Len(request_q) >= RequestCap
    \/ main_pc = "loop" /\ next_word > Len(wordlist) /\ coll_pc = "recv"

LaneBlocked(l) ==
    \/ lane[l].pc = "recv" /\ request_q = << >>
    \/ lane[l].pc = "send" /\ Len(responses_q) >= ResponseCap

CollectorBlocked ==
    \/ coll_pc = "panicked"
    \/ coll_pc = "recv" /\ coll_count < Len(wordlist) /\ responses_q = << >> /\ ~Closed

Deadlocked ==
    /\ ProducerBlocked
    /\ \A l \in SpawnedLanes : LaneBlocked(l)
    /\ CollectorBlocked

\* C19: with rate >= 1, in no reachable state with fewer than wordlist-length
\* outcomes consumed are the producer, every lane and the collector all
\* blocked on a channel or stopped.
C19_NoDeadlock == (rate >= 1 /\ Len(consumed) < Len(wordlist)) => ~Deadlocked

\* C20: once the collector has received as many outcomes as the wordlist has
\* entries, both channels are empty, the producer holds no request, and
\* every lane waits for a request, holding none, with no sleep running.
C20_NothingLeftAtLastVerdict ==
    (rate >= 1 /\ Len(consumed) = Len(wordlist)) =>
        /\ request_q = << >>
        /\ responses_q = << >>
        /\ cand = None
        /\ next_word = Len(wordlist) + 1
        /\ main_pc # "send"
        /\ \A l \in SpawnedLanes :
               /\ lane[l].pc = "recv"
               /\ lane[l].item = None
               /\ lane[l].timer = 0

C20_Witness ==
    /\ rate = MaxRate
    /\ Len(wordlist) = MaxWords
    /\ Len(verdicts) = MaxWords
    /\ coll_pc = "recv"

====
